---- MODULE Spec2Model ----
(***************************************************************************)
(* A model of mysqldump_to_csv.py: the driver main(), the schema extractor *)
(* get_create_keys(), the insert recognition (is_insert,                   *)
(* get_insert_values, values_sanity_check) and the value tokenizer and row *)
(* assembler parse_values().                                               *)
(*                                                                         *)
(* Text is modelled as sequences of one-character strings, so that the     *)
(* prefix tests, partitions, splits and the csv tokenizer are computed     *)
(* character by character as the code computes them.                       *)
(***************************************************************************)
EXTENDS Naturals, Sequences, FiniteSets, TLC

\* ------------------------------------------------------------------ bounds

\* lines read from the input in one run of main()
MaxLines == 4
\* tuples in a generated value list
MaxTuples == 2
\* values in a generated tuple
MaxCols == 3
\* values of a generated value list that are not plain numbers
MaxSpecial == 1
\* characters after the opening parenthesis of an unstructured value list
MaxRaw == 3

\* ------------------------------------------------------- string primitives

\* the backquote character (a string cannot hold it)
BQ == "<backquote>"

Last(s) == s[Len(s)]

ButLast(s) == SubSeq(s, 1, Len(s) - 1)

\* str.startswith
StartsWith(s, p) == Len(s) >= Len(p) /\ SubSeq(s, 1, Len(p)) = p

\* str.endswith, used for the slice s[-2:] == ");"
EndsWith(s, p) == Len(s) >= Len(p) /\ SubSeq(s, Len(s) - Len(p) + 1, Len(s)) = p

\* str.find + 1: the position of the first occurrence of sep in s, 0 when none
RECURSIVE FindFrom(_, _, _)
FindFrom(s, sep, i) ==
    IF i + Len(sep) - 1 > Len(s) THEN 0
    ELSE IF SubSeq(s, i, i + Len(sep) - 1) = sep THEN i
    ELSE FindFrom(s, sep, i + 1)

\* str.partition(sep): the text before the first sep and the text after it
Partition(s, sep) ==
    LET k == FindFrom(s, sep, 1)
    IN  IF k = 0
        THEN [before |-> s, found |-> FALSE, after |-> << >>]
        ELSE [before |-> SubSeq(s, 1, k - 1), found |-> TRUE,
              after |-> SubSeq(s, k + Len(sep), Len(s))]

\* str.strip(chars) on the left
RECURSIVE LStrip(_, _)
LStrip(s, chars) ==
    IF s # << >> /\ s[1] \in chars THEN LStrip(Tail(s), chars) ELSE s

\* str.strip(chars) on the right
RECURSIVE RStrip(_, _)
RStrip(s, chars) ==
    IF s # << >> /\ Last(s) \in chars THEN RStrip(ButLast(s), chars) ELSE s

Strip(s, chars) == RStrip(LStrip(s, chars), chars)

Whitespace == {" ", "\n", "\t", "\r"}

\* str.split(' '): every single space separates two parts
RECURSIVE SplitFrom(_, _, _, _)
SplitFrom(s, i, cur, parts) ==
    IF i > Len(s) THEN Append(parts, cur)
    ELSE IF s[i] = " " THEN SplitFrom(s, i + 1, << >>, Append(parts, cur))
    ELSE SplitFrom(s, i + 1, Append(cur, s[i]), parts)

Split(s) == SplitFrom(s, 1, << >>, << >>)

\* ------------------------------------------------------------ the csv reader

\* csv.reader([values], delimiter=',', doublequote=False, escapechar='\\',
\* quotechar="'", strict=True): the one record read from the one line, or the
\* csv.Error the strict reader raises.  st is the reader's state, cur the field
\* being collected, row the fields saved so far.
RECURSIVE CsvScan(_, _, _, _, _)
CsvScan(s, i, st, cur, row) ==
    IF i > Len(s)
    THEN \* end of the line, and no further line to read
         CASE st = "START_RECORD" -> [row |-> row, err |-> ""]
           [] st = "EAT_CRNL"     -> [row |-> row, err |-> ""]
           [] st = "START_FIELD"  -> [row |-> Append(row, << >>), err |-> ""]
           [] st = "IN_FIELD"     -> [row |-> Append(row, cur), err |-> ""]
           [] OTHER               -> [row |-> << >>, err |-> "csv.Error"]
    ELSE LET c == s[i] IN
         CASE st \in {"START_RECORD", "START_FIELD"} ->
                IF c = "\n"
                THEN CsvScan(s, i + 1, "EAT_CRNL", << >>,
                             IF st = "START_RECORD" THEN row ELSE Append(row, << >>))
                ELSE IF c = "'" THEN CsvScan(s, i + 1, "IN_QUOTED_FIELD", << >>, row)
                ELSE IF c = "\\" THEN CsvScan(s, i + 1, "ESCAPED_CHAR", << >>, row)
                ELSE IF c = "," THEN CsvScan(s, i + 1, "START_FIELD", << >>, Append(row, << >>))
                ELSE CsvScan(s, i + 1, "IN_FIELD", <<c>>, row)
           [] st = "IN_FIELD" ->
                IF c = "\n" THEN CsvScan(s, i + 1, "EAT_CRNL", << >>, Append(row, cur))
                ELSE IF c = "\\" THEN CsvScan(s, i + 1, "ESCAPED_CHAR", cur, row)
                ELSE IF c = "," THEN CsvScan(s, i + 1, "START_FIELD", << >>, Append(row, cur))
                ELSE CsvScan(s, i + 1, "IN_FIELD", Append(cur, c), row)
           [] st = "IN_QUOTED_FIELD" ->
                IF c = "\\" THEN CsvScan(s, i + 1, "ESCAPE_IN_QUOTED_FIELD", cur, row)
                ELSE IF c = "'" THEN CsvScan(s, i + 1, "IN_FIELD", cur, row)
                ELSE CsvScan(s, i + 1, "IN_QUOTED_FIELD", Append(cur, c), row)
           [] st = "ESCAPED_CHAR" ->
                IF c = "\n" THEN CsvScan(s, i + 1, "AFTER_ESCAPED_CRNL", Append(cur, c), row)
                ELSE CsvScan(s, i + 1, "IN_FIELD", Append(cur, c), row)
           [] st = "ESCAPE_IN_QUOTED_FIELD" ->
                CsvScan(s, i + 1, "IN_QUOTED_FIELD", Append(cur, c), row)
           [] OTHER -> \* EAT_CRNL, AFTER_ESCAPED_CRNL: text after the line's end
                IF c = "\n" THEN CsvScan(s, i + 1, st, cur, row)
                ELSE [row |-> << >>, err |-> "csv.Error"]

\* a reader that is not strict: a quote left open at the end of the text is
\* taken as closed there
csv_reader_lenient(values) ==
    LET r == CsvScan(values, 1, "START_RECORD", << >>, << >>)
    IN  IF r.err = "" THEN r
        ELSE CsvScan(Append(values, "'"), 1, "START_RECORD", << >>, << >>)

\* lines 88-93 and the next() of line 96: the fields of the one record
csv_reader(values) == CsvScan(values, 1, "START_RECORD", << >>, << >>)

\* ------------------------------------------------------------- parse_values

\* chr(0), the sentinel written for NULL and for the empty string
NUL == "<NUL>"

NULL == <<"N", "U", "L", "L">>

\* line 99: the column is empty or the keyword NULL
IsNullColumn(column) == Len(column) = 0 \/ column = NULL

\* line 115 raises IndexError when the previous entry is the empty string
PreviousEntryEmpty(latest_row) ==
    Len(latest_row) > 0 /\ Len(Last(latest_row)) = 0

\* new_row as it would be if every tuple were taken to have one value: a column
\* that opens a parenthesis never completes the row before it
new_row_never(latest_row) == FALSE

\* new_row as it would be without the test of line 108: a column that opens a
\* parenthesis always completes a row, even when none is being filled out
new_row_always(latest_row) == TRUE

\* lines 106-118: new_row, the row being filled out has been completed
new_row(latest_row) ==
    Len(latest_row) > 0 /\ Len(Last(latest_row)) > 0 /\ Last(Last(latest_row)) = ")"

\* line 117: remove the close paren of the previous entry
RemoveCloseParen(latest_row) ==
    IF latest_row = << >> THEN latest_row
    ELSE [latest_row EXCEPT ![Len(latest_row)] = ButLast(@)]

\* lines 97-129: the body of the loop over the columns of the record.
\* pv is [latest_row, out, err]: the row being filled out, the rows handed to
\* writer.writerow so far, and the exception raised ("" when none).
ProcessColumn(pv, column) ==
    IF pv.err # "" THEN pv
    ELSE IF IsNullColumn(column)
    THEN [pv EXCEPT !.latest_row = Append(@, <<NUL>>)]
    ELSE IF column[1] = "("
    THEN IF PreviousEntryEmpty(pv.latest_row)
         THEN [pv EXCEPT !.err = "IndexError"]
         ELSE IF new_row(pv.latest_row)
         THEN [pv EXCEPT !.out = Append(@, RemoveCloseParen(pv.latest_row)),
                         !.latest_row = <<Tail(column)>>]
         ELSE IF Len(pv.latest_row) = 0
         THEN [pv EXCEPT !.latest_row = <<Tail(column)>>]
         ELSE [pv EXCEPT !.latest_row = Append(@, column)]
    ELSE [pv EXCEPT !.latest_row = Append(@, column)]

\* line 134: the last entry ends with the close paren and the semicolon
EndsStatement(latest_row) == EndsWith(Last(latest_row), <<")", ";">>)

\* lines 134-136: the end of the INSERT statement
FinishRecord(pv) ==
    IF pv.err # "" THEN pv
    ELSE IF pv.latest_row = << >> THEN [pv EXCEPT !.err = "IndexError"]
    ELSE IF EndsStatement(pv.latest_row)
    THEN LET n == Len(pv.latest_row)
             stripped == [pv.latest_row EXCEPT ![n] = SubSeq(@, 1, Len(@) - 2)]
         IN  [pv EXCEPT !.latest_row = stripped, !.out = Append(@, stripped)]
    ELSE pv

RECURSIVE ProcessColumns(_, _, _)
ProcessColumns(pv, reader_row, i) ==
    IF i > Len(reader_row) THEN pv
    ELSE ProcessColumns(ProcessColumn(pv, reader_row[i]), reader_row, i + 1)

\* parse_values(values, outfile) for an outfile that can be written: the rows
\* written, the row left pending and the exception raised
parse_values(values) ==
    LET r == csv_reader(values)
        pv0 == [latest_row |-> << >>, out |-> << >>, err |-> r.err]
    IN  FinishRecord(ProcessColumns(pv0, r.row, 1))

\* ------------------------------------------------------ insert recognition

CREATE_TABLE == <<"C", "R", "E", "A", "T", "E", " ", "T", "A", "B", "L", "E">>

INSERT_INTO == <<"I", "N", "S", "E", "R", "T", " ", "I", "N", "T", "O">>

VALUES_DELIMITER == <<BQ, " ", "V", "A", "L", "U", "E", "S", " ">>

\* is_insert as it would be if no line were recognised
is_insert_never(text) == FALSE

\* is_insert(line)
is_insert(text) == StartsWith(text, INSERT_INTO)

\* get_insert_values(line)
get_insert_values(text) == Partition(text, VALUES_DELIMITER).after

\* values_sanity_check without its assertions
values_sanity_check_off(vals) == TRUE

\* values_sanity_check(values): TRUE when neither assertion is raised
values_sanity_check(vals) == vals # << >> /\ vals[1] = "("

\* ----------------------------------------------------------- get_create_keys

PRIMARY_KEY == <<" ", " ", "P", "R", "I", "M", "A", "R", "Y", " ", "K", "E", "Y">>

KEY == <<" ", " ", "K", "E", "Y">>

ENGINE == <<")", " ", "E", "N", "G", "I", "N", "E">>

UNIQUE_KEY == <<" ", " ", "U", "N", "I", "Q", "U", "E", " ", "K", "E", "Y">>

T_int == <<"i", "n", "t">>

T_bigint == <<"b", "i", "g", "i", "n", "t">>

T_timestamp == <<"t", "i", "m", "e", "s", "t", "a", "m", "p">>

T_datetime == <<"d", "a", "t", "e", "t", "i", "m", "e">>

T_date == <<"d", "a", "t", "e">>

T_decimal == <<"d", "e", "c", "i", "m", "a", "l">>

T_bit1 == <<"b", "i", "t", "(", "1", ")">>

S_INTEGER == <<":", "I", "N", "T", "E", "G", "E", "R">>

S_TIMESTAMP == <<":", "T", "I", "M", "E", "S", "T", "A", "M", "P">>

S_DATETIME == <<":", "D", "A", "T", "E", "T", "I", "M", "E">>

S_DATE == <<":", "D", "A", "T", "E">>

S_FLOAT64 == <<":", "F", "L", "O", "A", "T", "6", "4">>

S_BOOL == <<":", "B", "O", "O", "L">>

S_STRING == <<":", "S", "T", "R", "I", "N", "G">>

\* line 35: the text between the first and the second backquote
TableNameOf(text) == Partition(Partition(text, <<BQ>>).after, <<BQ>>).before

\* line 39: the line ends the block of column definitions
IsTerminator(text) ==
    \/ StartsWith(text, PRIMARY_KEY)
    \/ StartsWith(text, KEY)
    \/ StartsWith(text, ENGINE)
    \/ StartsWith(text, UNIQUE_KEY)

\* line 44: parts = line.strip().split(' ')
PartsOf(text) == Split(Strip(text, Whitespace))

\* KeyType with the test for date placed before the test for datetime
KeyType_date_first(word) ==
    IF StartsWith(word, T_int) \/ StartsWith(word, T_bigint) THEN S_INTEGER
    ELSE IF StartsWith(word, T_timestamp) THEN S_TIMESTAMP
    ELSE IF StartsWith(word, T_date) THEN S_DATE
    ELSE IF StartsWith(word, T_datetime) THEN S_DATETIME
    ELSE IF StartsWith(word, T_decimal) THEN S_FLOAT64
    ELSE IF StartsWith(word, T_bit1) THEN S_BOOL
    ELSE S_STRING

\* lines 46-59: the suffix chosen from the second part of the line
KeyType(word) ==
    IF StartsWith(word, T_int) \/ StartsWith(word, T_bigint) THEN S_INTEGER
    ELSE IF StartsWith(word, T_timestamp) THEN S_TIMESTAMP
    ELSE IF StartsWith(word, T_datetime) THEN S_DATETIME
    ELSE IF StartsWith(word, T_date) THEN S_DATE
    ELSE IF StartsWith(word, T_decimal) THEN S_FLOAT64
    ELSE IF StartsWith(word, T_bit1) THEN S_BOOL
    ELSE S_STRING

\* lines 45-59: new_key, for a line of at least two parts
new_key(parts) == Strip(parts[1], {BQ}) \o KeyType(parts[2])

\* ------------------------------------------------------------ the input lines

\* A line of the input: text is what the program reads; the other fields say
\* how the line was built and are read by the properties only.
MkLine(kind, table, name, sqltype, vals, text) ==
    [kind |-> kind, table |-> table, name |-> name, sqltype |-> sqltype,
     vals |-> vals, text |-> text]

NoLine == MkLine("none", << >>, << >>, "", << >>, << >>)

TableNames == {<<"a">>, <<"b">>}

CreateLine(t) ==
    MkLine("create", t, << >>, "", << >>,
           CREATE_TABLE \o <<" ", BQ>> \o t \o <<BQ, " ", "(", "\n">>)

ColumnDefs ==
    { <<<<"i", "d">>, <<"i", "n", "t", "(", "1", "1", ")">>, "int">>,
      <<<<"b", "i", "g">>, <<"b", "i", "g", "i", "n", "t", "(", "2", "0", ")">>, "bigint">>,
      <<<<"t", "s">>, <<"t", "i", "m", "e", "s", "t", "a", "m", "p">>, "timestamp">>,
      <<<<"d", "t">>, <<"d", "a", "t", "e", "t", "i", "m", "e">>, "datetime">>,
      <<<<"d">>, <<"d", "a", "t", "e">>, "date">>,
      <<<<"a", "m", "t">>, <<"d", "e", "c", "i", "m", "a", "l", "(", "1", "0", ",", "2", ")">>, "decimal">>,
      <<<<"f", "l", "a", "g">>, <<"b", "i", "t", "(", "1", ")">>, "bit(1)">>,
      <<<<"n", "a", "m", "e">>, <<"v", "a", "r", "c", "h", "a", "r", "(", "5", "0", ")">>, "varchar">>,
      <<<<"t", "i", "n", "y">>, <<"t", "i", "n", "y", "i", "n", "t", "(", "4", ")">>, "tinyint">> }

ColumnLine(c) ==
    MkLine("column", << >>, c[1], c[3], << >>,
           <<" ", " ", BQ>> \o c[1] \o <<BQ, " ">> \o c[2]
               \o <<" ", "N", "O", "T", " ", "N", "U", "L", "L", ",", "\n">>)

TerminatorLines ==
    { MkLine("terminator", << >>, << >>, "", << >>, t) : t \in
      { <<" ", " ", "P", "R", "I", "M", "A", "R", "Y", " ", "K", "E", "Y", " ", "(", BQ, "i", "d", BQ, ")", ",", "\n">>,
        <<" ", " ", "K", "E", "Y", " ", BQ, "k", BQ, " ", "(", BQ, "n", BQ, ")", ",", "\n">>,
        <<" ", " ", "U", "N", "I", "Q", "U", "E", " ", "K", "E", "Y", " ", BQ, "u", BQ, " ", "(", BQ, "n", BQ, ")", ",", "\n">>,
        <<")", " ", "E", "N", "G", "I", "N", "E", "=", "I", "n", "n", "o", "D", "B", ";", "\n">> } }

\* value lists of the insert lines: two rows, a NULL, a list that does not
\* begin with a parenthesis, an unterminated quote after a complete tuple, a
\* list cut before its end
ValueLists ==
    { <<"(", "1", ",", "'", "a", "'", ")", ",", "(", "2", ",", "'", "b", "'", ")", ";">>,
      <<"(", "1", ",", "N", "U", "L", "L", ",", "'", "x", "'", ")", ";">>,
      <<"1", ")", ",", "(", "2", ")", ";">>,
      <<"(", "1", ",", "2", ")", ",", "(", "3", ",", "'", "a">>,
      <<"(", "1", ",", "2", ")", ",", "(", "3", ",">> }

InsertLine(t, v) ==
    MkLine("insert", t, << >>, "", v,
           INSERT_INTO \o <<" ", BQ>> \o t \o VALUES_DELIMITER \o v \o <<"\n">>)

\* an insert line without the backquote before VALUES: no value list is found
BareInsertLine(t) ==
    MkLine("insert", t, << >>, "", << >>,
           INSERT_INTO \o <<" ">> \o t
               \o <<" ", "V", "A", "L", "U", "E", "S", " ", "(", "1", ")", ";", "\n">>)

CommentLine == MkLine("other", << >>, << >>, "", << >>, <<"-", "-", "\n">>)

\* the line that would complete the value list cut before its end
ContinuationLine ==
    MkLine("continuation", << >>, << >>, "", << >>, <<"4", ")", ";", "\n">>)

Lines ==
    {CreateLine(t) : t \in TableNames}
        \cup {ColumnLine(c) : c \in ColumnDefs}
        \cup TerminatorLines
        \cup {InsertLine(t, v) : t \in TableNames, v \in ValueLists}
        \cup {BareInsertLine(<<"a">>)}
        \cup {CommentLine, ContinuationLine}

\* ------------------------------------------------------------------- state

VARIABLES
    pc,            \* where main() stands: "main" (line 148), "get_create_keys"
                   \* (line 33), "close" (line 151), "open" (line 153), "done",
                   \* "aborted", "interrupted"; "off" when only parse_values
                   \* is run
    line,          \* main's line: the line the loop of main() read last
    nread,         \* the number of lines read from the input
    eof,           \* the input is exhausted
    output,        \* main's output: 0 for None, else an index of opened
    opened,        \* the file objects open() has returned: [name, closed]
    files,         \* the files of the working directory: name -> records
    table_name,    \* get_create_keys: table_name
    reading_keys,  \* get_create_keys: reading_keys
    keys,          \* get_create_keys: keys
    block,         \* how the lines the last get_create_keys call read were built
    exitcode,      \* "none" while running, else the exit status
    error,         \* the exception that ended the run, "" when none
    pv_pc,         \* where a lone parse_values call stands
    tuples,        \* how the value list of that call was built
    values,        \* parse_values: values
    reader_row,    \* parse_values: reader_row
    col_i,         \* parse_values: the position of column in reader_row
    latest_row,    \* parse_values: latest_row
    out_rows,      \* the rows handed to writer.writerow
    pv_err         \* the exception parse_values raised, "" when none

drv_vars ==
    <<pc, line, nread, eof, output, opened, files, table_name, reading_keys,
      keys, block, exitcode, error>>

pv_vars ==
    <<pv_pc, tuples, values, reader_row, col_i, latest_row, out_rows, pv_err>>

vars ==
    <<pc, line, nread, eof, output, opened, files, table_name, reading_keys,
      keys, block, exitcode, error,
      pv_pc, tuples, values, reader_row, col_i, latest_row, out_rows, pv_err>>

\* ------------------------------------------------------------------ the sinks

CSV_SUFFIX == <<".", "c", "s", "v">>

\* line 153: table_name + '.csv'
FileName(t) == t \o CSV_SUFFIX

\* close_output as it would be if the previous sink were left open
close_output_skipped(opn, out) == opn

\* lines 152 and 162: output.close()
close_output(opn, out) ==
    IF out = 0 THEN opn ELSE [opn EXCEPT ![out].closed = TRUE]

\* write_keys as it would be if it wrote nothing
write_keys_nothing(ks, content) == content

\* write_keys(keys, outfile): the header record written to the file
write_keys(ks, content) ==
    Append(content, [kind |-> "header", fields |-> ks, stmt |-> << >>])

\* the rows parse_values writes, each marked with the table its INSERT names
WrittenRows(rows, t) ==
    [k \in 1..Len(rows) |-> [kind |-> "row", fields |-> rows[k], stmt |-> t]]

\* what the properties read of a line that get_create_keys took
BlockEntry(l) == [kind |-> l.kind, name |-> l.name, sqltype |-> l.sqltype]

OpenSinks == {i \in DOMAIN opened : ~opened[i].closed}

\* --------------------------------------------------------------------- main

DrvInit ==
    /\ pc = "main"
    /\ line = NoLine
    /\ nread = 0
    /\ eof = FALSE
    /\ output = 0
    /\ opened = << >>
    /\ files = << >>
    /\ table_name = << >>
    /\ reading_keys = FALSE
    /\ keys = << >>
    /\ block = << >>
    /\ exitcode = "none"
    /\ error = ""

PvIdle ==
    /\ pv_pc = "idle"
    /\ tuples = << >>
    /\ values = << >>
    /\ reader_row = << >>
    /\ col_i = 0
    /\ latest_row = << >>
    /\ out_rows = << >>
    /\ pv_err = ""

Init == DrvInit /\ PvIdle

\* an uncaught exception: the interpreter prints it and exits with status 1
\* an exception caught like the interrupt: the run ends with status 0
Raise_status0(e) == pc' = "aborted" /\ exitcode' = "0" /\ error' = e

\* an exception that nothing catches ends the interpreter with status 1
Raise(e) == pc' = "aborted" /\ exitcode' = "1" /\ error' = e

\* lines 156-159 for the line l, with out the value of output and fls the files
\* InsertStatement with a check the code does not make: a row whose number
\* of fields differs from the header's is refused
InsertStatement_checked(l, out, opn, fls) ==
    LET vals == get_insert_values(l.text) IN
    IF ~values_sanity_check(vals)
    THEN Raise("AssertionError") /\ files' = fls
    ELSE IF out = 0
    THEN Raise("TypeError") /\ files' = fls
    ELSE LET r == parse_values(vals)
             f == FileName(opn[out].name)
             n == Len(fls[f][1].fields)
         IN  IF \E k \in DOMAIN r.out : Len(r.out[k]) # n
             THEN Raise("ValueError") /\ files' = fls
             ELSE /\ files' = [fls EXCEPT ![f] = @ \o WrittenRows(r.out, l.table)]
                  /\ IF r.err # "" THEN Raise(r.err)
                     ELSE pc' = "main" /\ UNCHANGED <<exitcode, error>>

\* lines 156-159 of main: the sanity check, then parse_values on the open sink
InsertStatement(l, out, opn, fls) ==
    LET vals == get_insert_values(l.text) IN
    IF ~values_sanity_check(vals)
    THEN Raise("AssertionError") /\ files' = fls
    ELSE IF out = 0
    THEN Raise("TypeError") /\ files' = fls
    ELSE LET r == parse_values(vals)
             f == FileName(opn[out].name)
         IN  /\ files' = [fls EXCEPT ![f] = @ \o WrittenRows(r.out, l.table)]
             /\ IF r.err # "" THEN Raise(r.err)
                ELSE pc' = "main" /\ UNCHANGED <<exitcode, error>>

\* line 148 reads a line that begins CREATE TABLE: line 150 calls
\* get_create_keys, whose loop takes that line first (lines 34-37)
MainCreate(l) ==
    /\ pc = "main"
    /\ ~eof /\ nread < MaxLines
    /\ StartsWith(l.text, CREATE_TABLE)
    /\ line' = l
    /\ nread' = nread + 1
    /\ UNCHANGED eof
    /\ table_name' = TableNameOf(l.text)
    /\ reading_keys' = TRUE
    /\ keys' = << >>
    /\ block' = << >>
    /\ pc' = "get_create_keys"
    /\ UNCHANGED <<output, opened, files, exitcode, error>>
    /\ UNCHANGED pv_vars

\* line 148 reads a line that begins INSERT INTO (lines 156-159)
MainInsert(l) ==
    /\ pc = "main"
    /\ ~eof /\ nread < MaxLines
    /\ ~StartsWith(l.text, CREATE_TABLE)
    /\ is_insert(l.text)
    /\ line' = l
    /\ nread' = nread + 1
    /\ UNCHANGED eof
    /\ InsertStatement(l, output, opened, files)
    /\ UNCHANGED <<output, opened, table_name, reading_keys, keys, block>>
    /\ UNCHANGED pv_vars

\* line 148 reads any other line
MainOther(l) ==
    /\ pc = "main"
    /\ ~eof /\ nread < MaxLines
    /\ ~StartsWith(l.text, CREATE_TABLE)
    /\ ~is_insert(l.text)
    /\ line' = l
    /\ nread' = nread + 1
    /\ UNCHANGED eof
    /\ UNCHANGED <<pc, output, opened, files, table_name, reading_keys, keys,
                   block, exitcode, error>>
    /\ UNCHANGED pv_vars

\* lines 161-162: the input is exhausted
MainEOF ==
    /\ pc = "main"
    /\ eof' = TRUE
    /\ opened' = close_output(opened, output)
    /\ pc' = "done"
    /\ exitcode' = "0"
    /\ UNCHANGED <<line, nread, output, files, table_name, reading_keys, keys,
                   block, error>>
    /\ UNCHANGED pv_vars

\* lines 33-37: get_create_keys reads another CREATE TABLE line
CreateKeysOpener(l) ==
    /\ pc = "get_create_keys"
    /\ ~eof /\ nread < MaxLines
    /\ StartsWith(l.text, CREATE_TABLE)
    /\ nread' = nread + 1
    /\ UNCHANGED eof
    /\ block' = Append(block, BlockEntry(l))
    /\ table_name' = TableNameOf(l.text)
    /\ reading_keys' = TRUE
    /\ UNCHANGED <<pc, line, output, opened, files, keys, exitcode, error>>
    /\ UNCHANGED pv_vars

\* get_create_keys looking at the terminator without taking it from the
\* iterator: the line stays the next one of the input
CreateKeysTerminator_peek(l) ==
    /\ pc = "get_create_keys"
    /\ ~eof /\ nread < MaxLines
    /\ ~StartsWith(l.text, CREATE_TABLE)
    /\ IsTerminator(l.text)
    /\ block' = Append(block, BlockEntry(l))
    /\ reading_keys' = FALSE
    /\ pc' = "close"
    /\ UNCHANGED <<line, nread, eof, output, opened, files, table_name, keys,
                   exitcode, error>>
    /\ UNCHANGED pv_vars

\* lines 39-41: get_create_keys reads a terminator and returns
CreateKeysTerminator(l) ==
    /\ pc = "get_create_keys"
    /\ ~eof /\ nread < MaxLines
    /\ ~StartsWith(l.text, CREATE_TABLE)
    /\ IsTerminator(l.text)
    /\ nread' = nread + 1
    /\ UNCHANGED eof
    /\ block' = Append(block, BlockEntry(l))
    /\ reading_keys' = FALSE
    /\ pc' = "close"
    /\ UNCHANGED <<line, output, opened, files, table_name, keys, exitcode, error>>
    /\ UNCHANGED pv_vars

\* lines 43-60: get_create_keys reads a column definition
CreateKeysColumn(l) ==
    /\ pc = "get_create_keys"
    /\ ~eof /\ nread < MaxLines
    /\ ~StartsWith(l.text, CREATE_TABLE)
    /\ ~IsTerminator(l.text)
    /\ nread' = nread + 1
    /\ UNCHANGED eof
    /\ block' = Append(block, BlockEntry(l))
    /\ IF ~reading_keys
       THEN UNCHANGED <<pc, keys, exitcode, error>>
       ELSE LET parts == PartsOf(l.text) IN
            IF Len(parts) < 2
            THEN Raise("IndexError") /\ UNCHANGED keys
            ELSE keys' = Append(keys, new_key(parts)) /\ UNCHANGED <<pc, exitcode, error>>
    /\ UNCHANGED <<line, output, opened, files, table_name, reading_keys>>
    /\ UNCHANGED pv_vars

\* line 33: the input is exhausted inside get_create_keys, which returns
\* table_name and the keys collected (line 61)
CreateKeysEOF ==
    /\ pc = "get_create_keys"
    /\ ~eof
    /\ eof' = TRUE
    /\ pc' = "close"
    /\ UNCHANGED <<line, nread, output, opened, files, table_name, reading_keys,
                   keys, block, exitcode, error>>
    /\ UNCHANGED pv_vars

\* lines 151-152: close the sink of the previous table
CloseOld ==
    /\ pc = "close"
    /\ opened' = close_output(opened, output)
    /\ pc' = "open"
    /\ UNCHANGED <<line, nread, eof, output, files, table_name, reading_keys, keys,
                   block, exitcode, error>>
    /\ UNCHANGED pv_vars

\* lines 153-154: open the file of the table for writing, which empties it,
\* and write the header; then line 156 tests main's line
OpenNew ==
    /\ pc = "open"
    /\ opened' = Append(opened, [name |-> table_name, closed |-> FALSE])
    /\ output' = Len(opened) + 1
    /\ LET f == FileName(table_name)
           fls == (f :> write_keys(keys, << >>)) @@ files
       IN  IF is_insert(line.text)
           THEN InsertStatement(line, output', opened', fls)
           ELSE files' = fls /\ pc' = "main" /\ UNCHANGED <<exitcode, error>>
    /\ UNCHANGED <<line, nread, eof, table_name, reading_keys, keys, block>>
    /\ UNCHANGED pv_vars

\* lines 165-168: KeyboardInterrupt is raised somewhere in main() and caught
KeyboardInterrupt ==
    /\ pc \in {"main", "get_create_keys", "close", "open"}
    /\ pc' = "interrupted"
    /\ exitcode' = "0"
    /\ UNCHANGED <<line, nread, eof, output, opened, files, table_name,
                   reading_keys, keys, block, error>>
    /\ UNCHANGED pv_vars

Next ==
    \/ \E l \in Lines : MainCreate(l)
    \/ \E l \in Lines : MainInsert(l)
    \/ \E l \in Lines : MainOther(l)
    \/ MainEOF
    \/ \E l \in Lines : CreateKeysOpener(l)
    \/ \E l \in Lines : CreateKeysTerminator(l)
    \/ \E l \in Lines : CreateKeysColumn(l)
    \/ CreateKeysEOF
    \/ CloseOld
    \/ OpenNew
    \/ KeyboardInterrupt

Spec == Init /\ [][Next]_vars

\* ------------------------------------------- parse_values on generated lists

Digits == <<"1", "2", "3", "4", "5", "6", "7", "8", "9">>

\* the kinds of value other than a plain number: the keyword NULL, the empty
\* string, a quoted string, a quoted string with an escaped apostrophe, with a
\* comma, with parentheses
Specials == {"null", "empty", "str", "esc", "comma", "paren"}

\* the text of the value of kind k at column j of tuple i, as the dump holds it
ValueText(k, i, j) ==
    CASE k = "null"  -> NULL
      [] k = "empty" -> <<"'", "'">>
      [] k = "str"   -> <<"'", "x", "'">>
      [] k = "esc"   -> <<"'", "O", "\\", "'", "B", "'">>
      [] k = "comma" -> <<"'", "a", ",", "b", "'">>
      [] k = "paren" -> <<"'", "(", "a", ")", "'">>
      [] OTHER       -> <<Digits[i], Digits[j]>>

\* the content of that value: its text without the quotes and the escapes
ValueContent(k, i, j) ==
    CASE k = "null"  -> NULL
      [] k = "empty" -> << >>
      [] k = "str"   -> <<"x">>
      [] k = "esc"   -> <<"O", "'", "B">>
      [] k = "comma" -> <<"a", ",", "b">>
      [] k = "paren" -> <<"(", "a", ")">>
      [] OTHER       -> <<Digits[i], Digits[j]>>

RECURSIVE TupleText(_, _, _)
TupleText(t, i, j) ==
    IF j > Len(t) THEN <<")">>
    ELSE (IF j = 1 THEN <<"(">> ELSE <<",">>) \o ValueText(t[j], i, j)
             \o TupleText(t, i, j + 1)

RECURSIVE ListText(_, _)
ListText(ts, i) ==
    IF i > Len(ts) THEN <<";", "\n">>
    ELSE (IF i = 1 THEN << >> ELSE <<",">>) \o TupleText(ts[i], i, 1)
             \o ListText(ts, i + 1)

\* the positions of the values of a list whose i-th tuple has w[i] values
Positions(w) == {q \in (DOMAIN w) \X (1..MaxCols) : q[2] <= w[q[1]]}

\* the list whose values at the positions of f are of the kind f gives and
\* whose other values are plain numbers
GeneratedList(w, f) ==
    [i \in DOMAIN w |-> [j \in 1..w[i] |->
        IF <<i, j>> \in DOMAIN f THEN f[<<i, j>>] ELSE "num"]]

RawAlphabet == {"(", ")", ",", ";", "'", "\\", "1"}

\* the texts that pass values_sanity_check: an opening parenthesis, at most
\* MaxRaw further characters, and the end of the line
RawLists ==
    UNION { { <<"(">> \o s \o nl : s \in [1..n -> RawAlphabet], nl \in {<< >>, <<"\n">>} }
            : n \in 0..MaxRaw }

DrvOff ==
    /\ pc = "off"
    /\ line = NoLine
    /\ nread = 0
    /\ eof = FALSE
    /\ output = 0
    /\ opened = << >>
    /\ files = << >>
    /\ table_name = << >>
    /\ reading_keys = FALSE
    /\ keys = << >>
    /\ block = << >>
    /\ exitcode = "none"
    /\ error = ""

InitPV ==
    /\ DrvOff
    /\ pv_pc = "start"
    /\ \/ \E n \in 1..MaxTuples : \E w \in [1..n -> 1..MaxCols] :
          \E S \in {X \in SUBSET Positions(w) : Cardinality(X) <= MaxSpecial} :
          \E f \in [S -> Specials] :
              /\ tuples = GeneratedList(w, f)
              /\ values = ListText(GeneratedList(w, f), 1)
       \/ \E v \in RawLists : tuples = << >> /\ values = v
    /\ reader_row = << >>
    /\ col_i = 0
    /\ latest_row = << >>
    /\ out_rows = << >>
    /\ pv_err = ""

\* lines 86-96: the reader splits the line into the columns of one record
Tokenize ==
    /\ pv_pc = "start"
    /\ LET r == csv_reader(values) IN
       IF r.err # ""
       THEN pv_err' = r.err /\ pv_pc' = "raised" /\ UNCHANGED <<reader_row, col_i>>
       ELSE reader_row' = r.row /\ col_i' = 1 /\ pv_pc' = "columns" /\ UNCHANGED pv_err
    /\ UNCHANGED <<tuples, values, latest_row, out_rows>>
    /\ UNCHANGED drv_vars

\* lines 97-129: one pass of the loop over the columns
Column ==
    /\ pv_pc = "columns"
    /\ col_i <= Len(reader_row)
    /\ LET pv == ProcessColumn([latest_row |-> latest_row, out |-> out_rows, err |-> ""],
                               reader_row[col_i])
       IN  /\ latest_row' = pv.latest_row
           /\ out_rows' = pv.out
           /\ pv_err' = pv.err
           /\ pv_pc' = IF pv.err # "" THEN "raised" ELSE "columns"
    /\ col_i' = col_i + 1
    /\ UNCHANGED <<tuples, values, reader_row>>
    /\ UNCHANGED drv_vars

\* lines 134-136: after the last column
Finish ==
    /\ pv_pc = "columns"
    /\ col_i > Len(reader_row)
    /\ LET pv == FinishRecord([latest_row |-> latest_row, out |-> out_rows, err |-> ""])
       IN  /\ latest_row' = pv.latest_row
           /\ out_rows' = pv.out
           /\ pv_err' = pv.err
           /\ pv_pc' = IF pv.err # "" THEN "raised" ELSE "done"
    /\ UNCHANGED <<tuples, values, reader_row, col_i>>
    /\ UNCHANGED drv_vars

NextPV == Tokenize \/ Column \/ Finish

SpecPV == InitPV /\ [][NextPV]_vars

\* ------------------------------------------------------------- properties

\* C1: in every reachable state of a run of main() at most one output sink is
\* open, and when the sink of a new table is about to be opened (line 153) the
\* sink of the previous table has been closed.
C1_AtMostOneSinkOpen ==
    /\ Cardinality(OpenSinks) <= 1
    /\ pc = "open" => OpenSinks = {}

\* a second sink is open after the first one was closed
C1_Witness ==
    /\ pc = "main"
    /\ Len(opened) >= 2
    /\ opened[1].closed
    /\ ~opened[2].closed

\* the generated list holds no value with a comma or a parenthesis
NoCommaOrParen(ts) ==
    \A i \in DOMAIN ts : \A j \in DOMAIN ts[i] : ts[i][j] \notin {"comma", "paren"}

\* row i of the rows written has a field j
HasField(i, j) == i <= Len(out_rows) /\ j <= Len(out_rows[i])

\* C2 (as claimed): for every tuple and every column position, the first and
\* the last included, a value that is NULL or the empty string is written as the
\* single NUL byte.
C2_NulEverywhere ==
    (pv_pc = "done" /\ tuples # << >> /\ NoCommaOrParen(tuples)) =>
        \A i \in DOMAIN tuples : \A j \in DOMAIN tuples[i] :
            tuples[i][j] \in {"null", "empty"} =>
                HasField(i, j) /\ out_rows[i][j] = <<NUL>>

\* the field carries no parenthesis and no semicolon
NoDelimiter(field) == \A k \in DOMAIN field : field[k] \notin {"(", ")", ";"}

\* the field written for the value of kind k at column j of tuple i is that
\* value: a number as written, a string up to its quotes, NULL or the empty
\* string as themselves or as the NUL byte
Carries(field, k, i, j) ==
    CASE k = "null"  -> field \in {<<NUL>>, NULL}
      [] k = "empty" -> Strip(field, {"'"}) \in {<<NUL>>, << >>}
      [] OTHER       -> Strip(field, {"'"}) = ValueContent(k, i, j)

\* C3: a list of N tuples whose values hold no comma and no parenthesis is
\* written as exactly N rows, in order, row i with as many fields as tuple i has
\* values, in the order of the values, and no field keeps a parenthesis of a
\* tuple or the semicolon.
C3_MultiRowSplitting ==
    (tuples # << >> /\ NoCommaOrParen(tuples)) =>
        /\ pv_pc # "raised"
        /\ pv_pc = "done" =>
            /\ Len(out_rows) = Len(tuples)
            /\ \A i \in DOMAIN tuples :
                /\ Len(out_rows[i]) = Len(tuples[i])
                /\ \A j \in DOMAIN tuples[i] :
                    /\ NoDelimiter(out_rows[i][j])
                    /\ Carries(out_rows[i][j], tuples[i][j], i, j)

\* two tuples, the first of a single value, have been written as two rows
C3_Witness ==
    /\ pv_pc = "done"
    /\ NoCommaOrParen(tuples)
    /\ Len(tuples) = 2
    /\ Len(tuples[1]) = 1
    /\ Len(out_rows) = 2

\* C4 (as claimed): a quoted value with an escaped apostrophe or a comma is
\* written as exactly one field holding its content, at every column position,
\* the first included.
C4_QuotingEverywhere ==
    (pv_pc = "done" /\ tuples # << >>
        /\ \A i \in DOMAIN tuples : \A j \in DOMAIN tuples[i] : tuples[i][j] # "paren") =>
        \A i \in DOMAIN tuples : \A j \in DOMAIN tuples[i] :
            tuples[i][j] \in {"esc", "comma"} =>
                /\ Len(out_rows) = Len(tuples)
                /\ Len(out_rows[i]) = Len(tuples[i])
                /\ out_rows[i][j] = ValueContent(tuples[i][j], i, j)

\* the value list of an insert line is empty or does not begin with "("
BadValueList(v) == v = << >> \/ v[1] # "("

\* main() has just read the line l
MainReads(l) == pc = "main" /\ nread' = nread + 1 /\ line' = l

\* C5: an insert line whose value list is empty or does not begin with "("
\* ends the run with the assertion error, and the files are as they were before
\* the line was read.
C5_SanityCheckFatal ==
    [][\A l \in Lines :
          (MainReads(l) /\ l.kind = "insert" /\ BadValueList(l.vals)) =>
              /\ pc' = "aborted"
              /\ error' = "AssertionError"
              /\ exitcode' = "1"
              /\ files' = files
              /\ opened' = opened]_vars

\* the run was ended by such a line while a sink with a header was open
C5_Witness ==
    /\ pc = "aborted"
    /\ error = "AssertionError"
    /\ output # 0
    /\ line.kind = "insert"
    /\ BadValueList(line.vals)
    /\ line.vals # << >>

\* the type the header names for a column of the SQL type t
ExpectedType(t) ==
    CASE t \in {"int", "bigint"} -> S_INTEGER
      [] t = "timestamp"         -> S_TIMESTAMP
      [] t = "datetime"          -> S_DATETIME
      [] t = "date"              -> S_DATE
      [] t = "decimal"           -> S_FLOAT64
      [] t = "bit(1)"            -> S_BOOL
      [] OTHER                   -> S_STRING

\* the header element of a line taken as a column definition: a column line
\* gives its name and type; an insert line, whose first two words are INSERT
\* and INTO, gives INSERT:STRING
ExpectedKey(e) ==
    IF e.kind = "column" THEN e.name \o ExpectedType(e.sqltype)
    ELSE <<"I", "N", "S", "E", "R", "T">> \o S_STRING

IsColumnEntry(e) == e.kind \notin {"create", "terminator"}

ExpectedHeader(b) ==
    LET cs == SelectSeq(b, IsColumnEntry)
    IN  [k \in DOMAIN cs |-> ExpectedKey(cs[k])]

\* C6: the keys get_create_keys returns, and the header written from them, hold
\* one element name:TYPE per column line of the block, in line order, the type
\* chosen by the prefix rules in their precedence.
C6_HeaderCorrect ==
    /\ pc \in {"close", "open"} => keys = ExpectedHeader(block)
    /\ (pc = "main" /\ output # 0) =>
           files[FileName(opened[output].name)][1].fields = ExpectedHeader(block)

\* a header of two columns or more, one of them a datetime, has been written
C6_Witness ==
    /\ pc = "main"
    /\ output # 0
    /\ Len(keys) >= 2
    /\ \E k \in DOMAIN block : block[k].sqltype = "datetime"

\* C7 (as claimed): every row written for an insert statement that names table
\* T is in the file of T and in no other.
C7_RowsInOwnTable ==
    \A f \in DOMAIN files : \A k \in DOMAIN files[f] :
        files[f][k].kind = "row" => f = FileName(files[f][k].stmt)

\* C8: every sink holds its header as its first record, and no other header:
\* no row is written before the header and no second header after it.
C8_HeaderFirstAndOnce ==
    /\ \A i \in DOMAIN opened : FileName(opened[i].name) \in DOMAIN files
    /\ \A f \in DOMAIN files :
        /\ Len(files[f]) >= 1
        /\ files[f][1].kind = "header"
        /\ \A k \in 2..Len(files[f]) : files[f][k].kind = "row"

\* a sink holds its header and two rows
C8_Witness == \E f \in DOMAIN files : Len(files[f]) >= 3

\* C9: an insert line read while no table has been opened ends the run with a
\* fatal error: nothing is written, no sink is opened, and no step follows the
\* end of the run.
C9_InsertWithoutTable ==
    [][/\ pc # "aborted"
       /\ \A l \in Lines :
            (MainReads(l) /\ output = 0 /\ l.kind = "insert") =>
                /\ pc' = "aborted"
                /\ exitcode' = "1"
                /\ files' = files
                /\ opened' = opened]_vars

\* a well-formed insert line has ended the run because no sink was open
C9_Witness ==
    /\ pc = "aborted"
    /\ error = "TypeError"
    /\ opened = << >>
    /\ files = << >>
    /\ line.kind = "insert"

\* C10: every row handed to the writer has at least one field.
C10_NoEmptyRowWritten == \A k \in DOMAIN out_rows : Len(out_rows[k]) >= 1

\* rows have been written from a value list, one of them for a new tuple
C10_Witness == pv_pc = "done" /\ Len(out_rows) >= 2

\* the number of quote characters of v before position i
QuotesBefore(v, i) == Cardinality({j \in 1..(i - 1) : v[j] = "'"})

\* a value list of complete tuples whose values hold no comma, parenthesis or
\* escape: it begins with "(", ends with ");", a parenthesis inside it stands
\* only in the separator "),(" of two tuples, and every comma and parenthesis
\* stands outside the quotes
PlainList(v) ==
    /\ Len(v) >= 3
    /\ v[1] = "("
    /\ EndsWith(v, <<")", ";">>)
    /\ \A i \in 2..Len(v) :
           v[i] = "(" => (i >= 3 /\ v[i - 1] = "," /\ v[i - 2] = ")")
    /\ \A i \in 1..(Len(v) - 2) :
           v[i] = ")" => (v[i + 1] = "," /\ v[i + 2] = "(")
    /\ \A i \in DOMAIN v : v[i] \notin {"\\", "\n"}
    /\ \A i \in DOMAIN v :
           v[i] \in {",", "(", ")", ";"} => QuotesBefore(v, i) % 2 = 0

\* the number of values of each tuple of a plain list, counted from its commas
RECURSIVE TupleSizes(_, _, _, _)
TupleSizes(v, i, n, acc) ==
    IF i > Len(v) THEN Append(acc, n)
    ELSE IF v[i] = "," /\ v[i - 1] = ")" THEN TupleSizes(v, i + 1, 1, Append(acc, n))
    ELSE IF v[i] = "," THEN TupleSizes(v, i + 1, n + 1, acc)
    ELSE TupleSizes(v, i + 1, n, acc)

\* C11: the number of values of a tuple is not compared with the number of
\* columns of the open table: an insert line with a plain value list, read
\* while a sink is open, adds one row per tuple to the open file, the row of a
\* tuple of k values having exactly k fields whatever the length of the header,
\* and the run goes on to the next line without an error.
C11_NoColumnCountCheck ==
    [][\A l \in Lines :
          (MainReads(l) /\ l.kind = "insert" /\ output # 0 /\ PlainList(l.vals)) =>
              LET f  == FileName(opened[output].name)
                  sz == TupleSizes(l.vals, 2, 1, << >>)
                  m  == Len(files[f])
              IN  /\ pc' = "main"
                  /\ error' = ""
                  /\ exitcode' = "none"
                  /\ Len(files'[f]) = m + Len(sz)
                  /\ SubSeq(files'[f], 1, m) = files[f]
                  /\ \A k \in DOMAIN sz :
                         /\ files'[f][m + k].kind = "row"
                         /\ Len(files'[f][m + k].fields) = sz[k]]_vars

\* a tuple of k values was written as a row of k fields under a header of
\* n # k columns, and the run goes on
C11_Witness ==
    /\ pc = "main"
    /\ output # 0
    /\ line.kind = "insert"
    /\ PlainList(line.vals)
    /\ LET c == files[FileName(opened[output].name)]
       IN  /\ Len(c) >= 2
           /\ c[Len(c)].kind = "row"
           /\ Len(c[1].fields) >= 1
           /\ Len(c[Len(c)].fields) # Len(c[1].fields)

\* a value list with a quoted value that is never closed: no escape, and an odd
\* number of quote characters
UnterminatedQuote(v) ==
    /\ v # << >>
    /\ v[1] = "("
    /\ \A i \in DOMAIN v : v[i] # "\\"
    /\ QuotesBefore(v, Len(v) + 1) % 2 = 1

Running == {"main", "get_create_keys", "close", "open"}

\* C13: a run that reached the end of the input without an error has no open
\* sink and status 0; an interrupted run has status 0, and the interrupt can
\* come at every point of a run; a run ended by the assertion of the sanity
\* check or by the error of the csv reader has a non-zero status; a run that
\* has not ended has no status.
C13_ExitBehaviour ==
    /\ pc = "done" => (exitcode = "0" /\ error = "" /\ OpenSinks = {})
    /\ pc = "interrupted" => (exitcode = "0" /\ error = "")
    /\ (pc = "aborted" /\ error \in {"AssertionError", "csv.Error"}) =>
           exitcode = "1"
    /\ pc \in Running => (exitcode = "none" /\ ENABLED KeyboardInterrupt)

\* the end of the input was reached after a sink was opened and rows were
\* written to it
C13_Witness ==
    /\ pc = "done"
    /\ exitcode = "0"
    /\ output # 0
    /\ Len(files[FileName(opened[output].name)]) >= 2

\* the value list cut before its end: its text does not end with ");" and
\* leaves the row that begins with 3 pending
WrappedList == <<"(", "1", ",", "2", ")", ",", "(", "3", ",">>

\* the row of the wrapped statement once the continuation line has given its
\* last value
CompletedRow == << <<"3">>, <<"4">> >>

\* C14: when the line after an insert line with the wrapped value list is the
\* line that completes the statement, the pending row is written to the open
\* file with every value accumulated for it.
C14_PendingRowKept ==
    [][(/\ pc = "main"
        /\ output # 0
        /\ line.kind = "insert"
        /\ line.vals = WrappedList
        /\ MainReads(ContinuationLine)) =>
           LET f == FileName(opened[output].name)
           IN  /\ Len(files'[f]) = Len(files[f]) + 1
               /\ Last(files'[f]).kind = "row"
               /\ Last(files'[f]).fields = CompletedRow]_vars

\* the decoded field begins with "("
OpensParen(F) == F # << >> /\ F[1] = "("

\* the policy as stated: the field begins with "(", the accumulator is not
\* empty and its last field ends with ")"
RowBoundary(acc, F) ==
    /\ OpensParen(F)
    /\ acc # << >>
    /\ Last(acc) # << >>
    /\ Last(Last(acc)) = ")"

\* the accumulator once the flush, if any, has been made
AfterFlush(acc, F) == IF RowBoundary(acc, F) THEN << >> ELSE acc

\* C15: in every pass of the loop over the decoded fields, with F the field of
\* the pass: a row is written if and only if F begins with "(", the accumulator
\* is not empty and its last field ends with ")", and the row written is the
\* accumulator with that ")" removed; a field F that begins with "(" loses it
\* if and only if the accumulator is empty after that step, and begins the new
\* accumulator; otherwise F is appended unchanged to the accumulator and no row
\* is written.
C15_RowBoundaryPolicy ==
    [][(pv_pc = "columns" /\ col_i' = col_i + 1) =>
          LET F == reader_row[col_i] IN
          /\ (out_rows' # out_rows) <=> RowBoundary(latest_row, F)
          /\ RowBoundary(latest_row, F) =>
                 out_rows' = Append(out_rows,
                     [latest_row EXCEPT ![Len(latest_row)] = ButLast(@)])
          /\ (OpensParen(F) /\ AfterFlush(latest_row, F) = << >>) =>
                 latest_row' = <<Tail(F)>>
          /\ (OpensParen(F) /\ AfterFlush(latest_row, F) # << >>) =>
                 /\ latest_row' = Append(latest_row, F)
                 /\ out_rows' = out_rows]_vars

\* get_create_keys has just taken a line from the input
KeysTakes == pc = "get_create_keys" /\ Len(block') = Len(block) + 1

\* C16: main and get_create_keys take their lines from one cursor that only
\* moves forward, one line for each line taken: a line taken by
\* get_create_keys moves the cursor by one, and the cursor moves for no other
\* reason than a line taken by main or by get_create_keys; get_create_keys
\* takes no line after a terminator; the terminator it takes is consumed, adds
\* no key and is not handed to main, whose current line stays the opener; and
\* between the return of get_create_keys and the next line main reads the
\* cursor does not move, so that main goes on with the line after the
\* terminator.
C16_SharedCursor ==
    [][/\ KeysTakes => nread' = nread + 1
       /\ nread' # nread =>
              /\ nread' = nread + 1
              /\ pc = "main" \/ KeysTakes
       /\ pc = "get_create_keys" =>
              \A k \in DOMAIN block : block[k].kind # "terminator"
       /\ (KeysTakes /\ Last(block').kind = "terminator") =>
              /\ keys' = keys
              /\ line' = line
              /\ line.kind = "create"
              /\ pc' = "close"
       /\ pc \in {"close", "open"} =>
              /\ nread' = nread
              /\ line' = line
              /\ block' = block
              /\ pc' \in {"open", "main", "interrupted"}]_vars

\* after the block of the first table, of the opener, a column line and a
\* terminator, main has read the line that follows the terminator
C16_Witness ==
    /\ pc = "main"
    /\ output # 0
    /\ Len(block) = 2
    /\ block[1].kind = "column"
    /\ block[2].kind = "terminator"
    /\ line.kind = "insert"
    /\ nread = 4

\* C17: when the input ends inside a table-definition block, before a
\* terminator line, the run ends with an error: it does not go on to open a
\* sink.
C17_PrematureEndIsError ==
    [][(pc = "get_create_keys" /\ ~eof /\ eof') =>
          /\ pc' = "aborted"
          /\ exitcode' = "1"
          /\ error' # ""]_vars

\* C18: while get_create_keys runs the sink of the previous table has already
\* been closed, and so it is when a column line without a second word has
\* ended the run inside get_create_keys.
C18_CloseBeforeExtract ==
    /\ pc = "get_create_keys" => OpenSinks = {}
    /\ (pc = "aborted" /\ error = "IndexError" /\ reading_keys /\ ~eof) =>
           OpenSinks = {}

\* the record r is one of the records of the file content c
HoldsRecord(c, r) == \E k \in DOMAIN c : c[k] = r

\* C19: no step of a run removes a row from a file: every row a file holds
\* before the step is in the file after it.
C19_RowsNeverLost ==
    [][\A f \in DOMAIN files : \A k \in DOMAIN files[f] :
          files[f][k].kind = "row" =>
              (f \in DOMAIN files' /\ HoldsRecord(files'[f], files[f][k]))]_vars

====
